---------------------------- MODULE Spec2Model ----------------------------
(***************************************************************************)
(* Upheaval-Draft: a terminal program that loads a library of marks, lets  *)
(* the user author a draft of draw specifications, resolves the draft by   *)
(* constrained random sampling (Library::exec_draw, src/src/main.rs) and   *)
(* keeps a history of the results (UiState, src/src/ui.rs).                *)
(*                                                                         *)
(* Conventions.  Option<T> is a sequence of length 0 (None) or 1 (Some).   *)
(* A Vec is a sequence; Rust's 0-based indices are kept in the state and   *)
(* one is added where a sequence is indexed.  A BTreeSet<String> that is   *)
(* iterated (the library's categories and tags) is the strictly increasing *)
(* sequence of its elements; one that is only searched (a mark's tags) is  *)
(* a set.  A tuple (a, b) is the sequence <<a, b>>.                        *)
(***************************************************************************)
EXTENDS Integers, Sequences, FiniteSets, TLC

VARIABLES
    library,        \* UiState.library: [list, categories, tags]
    draws,          \* DraftEditor.draws
    line,           \* DraftEditor.line
    scroll,         \* DraftEditor.scroll
    selected_tab,   \* DraftView.selected_tab: "Left" | "Right"
    mark_state,     \* MarkList.state.selected(): Option<usize>
    tab,            \* UiState.tab: "DraftCreation" | "Results"
    is_saving,      \* UiState.is_saving
    save_box,       \* UiState.save_box: [text, cursor_pos]
    results,        \* Results.results: Vec<(Vec<Mark>, Vec<Draw>)>
    results_state,  \* Results.state.selected(): Option<usize>
    status          \* the event loop: "running" | "quit" | "error" | "panicked" |
                    \* "hung" | "wrapped"

vars == <<library, draws, line, scroll, selected_tab, mark_state, tab,
          is_saving, save_box, results, results_state, status>>

---------------------------------------------------------------------------
(* Bounds of the model.                                                    *)

MaxDraws == 1       \* draws the session's editor may hold
MaxResults == 2     \* entries the results history may hold
MaxScroll == 1      \* scroll offset the session's PageDown may reach
MaxMarks == 3       \* marks of an input library of exec_draw
MaxDraft == 3       \* draws of an input draft of exec_draw
MaxHistory == 3     \* entries of a saved history the browser starts from
MaxEditDraws == 2   \* draws the editor may hold over the two-tag library
MaxEditScroll == 1  \* scroll offset PageDown may reach in the editor alone
MaxRotateDraws == 1 \* draws the editor may hold over the three-tag library
MaxCategoryDraws == 2 \* draws the editor may hold over the category libraries
MaxText == 2        \* characters the save prompt's text may hold

---------------------------------------------------------------------------
(* Data.                                                                   *)

None == <<>>
Some(x) == <<x>>

Powers == <<"BadKarma", "Poor", "Moderate", "Good", "Great", "Supreme", "Unique">>

PowerSet == {Powers[k] : k \in 1..Len(Powers)}

Range(s) == {s[k] : k \in 1..Len(s)}

Mark(n, p, c, ts, d) ==
    [name |-> n, power |-> p, category |-> c, tags |-> ts, description |-> d]

Draw(p, c, ts) == [power |-> p, category |-> c, tags |-> ts]

DefaultDraw == Draw(None, None, <<>>)

saturating_sub(a, b) == IF a >= b THEN a - b ELSE 0

min(a, b) == IF a <= b THEN a ELSE b

---------------------------------------------------------------------------
(* Library::exec_draw.                                                     *)

\* Mutant: a BadKarma constraint accepts a mark of any quality.
PowerSkipAnyBelow(p, y) ==
    IF p = None THEN FALSE
    ELSE LET x == p[1] IN
         IF x = y THEN FALSE
         ELSE IF x = "BadKarma" THEN FALSE
         ELSE TRUE

\* The closure of the quality filter: TRUE when the mark is skipped.
PowerSkip(p, y) ==
    IF p = None THEN FALSE
    ELSE LET x == p[1] IN
         IF x = y THEN FALSE
         ELSE IF x = "BadKarma" /\ y \in {"Poor", "Moderate"} THEN FALSE
         ELSE TRUE

CategorySkip(c, mark) == c # None /\ mark.category # c[1]

TagSkip(ts, mark) == \E k \in 1..Len(ts) : ts[k] \notin mark.tags

\* Mutant: no cross-draw deduplication.
NameChosenNever(marks, mark) == FALSE

NameChosen(marks, mark) == \E k \in 1..Len(marks) : marks[k].name = mark.name

\* Mutant: the availability flag is not consulted.
PoolIgnoringFree(list, draw, marks) ==
    LET keep(e) == /\ ~PowerSkip(draw.power, e[1].power)
                   /\ ~CategorySkip(draw.category, e[1])
                   /\ ~TagSkip(draw.tags, e[1])
                   /\ ~NameChosen(marks, e[1])
        kept == SelectSeq(list, keep)
    IN  [k \in 1..Len(kept) |-> kept[k][1]]

\* The inner loop: the marks pushed to `pool` for one draw, in library order.
Pool(list, draw, marks) ==
    LET keep(e) == /\ e[2]
                   /\ ~PowerSkip(draw.power, e[1].power)
                   /\ ~CategorySkip(draw.category, e[1])
                   /\ ~TagSkip(draw.tags, e[1])
                   /\ ~NameChosen(marks, e[1])
        kept == SelectSeq(list, keep)
    IN  [k \in 1..Len(kept) |-> kept[k][1]]

Sentinel == Mark("STUPID", "Poor", "", {}, "")

\* Mutant: the first element of the pool is always taken.
ChooseFirst(pool) ==
    IF pool = <<>> THEN {Sentinel} ELSE {pool[1]}

\* Mutant: an empty pool fails the call instead of giving the sentinel.
ChooseOrFail(pool) == {pool[k] : k \in 1..Len(pool)}

\* pool.choose(rng).map(clone).unwrap_or(sentinel): every value the call can give.
Choose(pool) ==
    IF pool = <<>> THEN {Sentinel} ELSE {pool[k] : k \in 1..Len(pool)}

\* Mutant: each choice is put in front of the earlier ones.
RECURSIVE ExecLoopReversed(_, _, _)
ExecLoopReversed(list, ds, marks) ==
    IF ds = <<>> THEN {marks}
    ELSE UNION {ExecLoopReversed(list, Tail(ds), <<choice>> \o marks) :
                    choice \in Choose(Pool(list, Head(ds), marks))}

RECURSIVE ExecLoop(_, _, _)
ExecLoop(list, ds, marks) ==
    IF ds = <<>> THEN {marks}
    ELSE UNION {ExecLoop(list, Tail(ds), Append(marks, choice)) :
                    choice \in Choose(Pool(list, Head(ds), marks))}

\* Every vector of marks one call can return.
exec_draw(list, ds) == ExecLoop(list, ds, <<>>)

\* Mutant: the marks that were drawn are checked out of the library.
LibraryConsumed(lib, marks) ==
    [lib EXCEPT !.list = [k \in 1..Len(lib.list) |->
        IF \E i \in 1..Len(marks) : marks[i].name = lib.list[k][1].name
        THEN <<lib.list[k][1], FALSE>> ELSE lib.list[k]]]

\* exec_draw takes &mut self and leaves the library as it was.
LibraryAfterExec(lib, marks) == lib

---------------------------------------------------------------------------
(* The draw-execution trigger of UiState::input.                           *)

DraftClone(ds) == ds

\* Mutant: the draft is moved into the call and left empty.
DraftTaken(ds) == <<>>

\* The editor's draft after the trigger: both uses were of a clone.
DraftAfterExec(ds) == ds

\* Mutant: the new entry takes the place of the last one.
PushOverLast(res, marks, ds) ==
    IF res = <<>> THEN <<<<marks, ds>>>>
    ELSE [res EXCEPT ![Len(res)] = <<marks, ds>>] \o <<<<marks, ds>>>>

PushResult(res, marks, ds) == Append(res, <<marks, ds>>)

\* Mutant: the first entry is selected.
SelectFirst(res) == Some(0)

SelectLast(res) == Some(Len(res) - 1)

Dispatch == status = "running" /\ ~is_saving

ExecDraft ==
    /\ Dispatch
    /\ selected_tab = "Left"
    /\ tab = "DraftCreation"
    /\ Len(results) < MaxResults
    /\ \E marks \in exec_draw(library.list, DraftClone(draws)) :
          /\ results' = PushResult(results, marks, DraftClone(draws))
          /\ library' = LibraryAfterExec(library, marks)
    /\ draws' = DraftAfterExec(draws)
    /\ tab' = "Results"
    /\ results_state' = SelectLast(results')
    /\ UNCHANGED <<line, scroll, selected_tab, mark_state, is_saving, save_box, status>>

---------------------------------------------------------------------------
(* The line-addressed draft editor (DraftEditor).                          *)

draw_lines(d) ==
    1 + (IF d.power # None THEN 1 ELSE 0) + (IF d.category # None THEN 1 ELSE 0)
      + Len(d.tags)

RECURSIVE max_line(_)
max_line(ds) == IF ds = <<>> THEN 0 ELSE draw_lines(Head(ds)) + max_line(Tail(ds))

\* Mutant: the range of the next draw is sized by the draw just passed.
RECURSIVE SelectionLoopStale(_, _, _, _, _)
SelectionLoopStale(ds, ln, i, lo, hi) ==
    IF ln >= lo /\ ln < hi THEN [ok |-> TRUE, idx |-> i, offset |-> ln - lo]
    ELSE IF i + 1 >= Len(ds) THEN [ok |-> FALSE, idx |-> i + 1, offset |-> 0]
    ELSE SelectionLoopStale(ds, ln, i + 1, hi, hi + draw_lines(ds[i + 1]))

\* The while loop of get_selection: draw i (0-based) covers lines lo..hi-1.
\* Indexing self.draws[i] past the end panics.
RECURSIVE SelectionLoop(_, _, _, _, _)
SelectionLoop(ds, ln, i, lo, hi) ==
    IF ln >= lo /\ ln < hi THEN [ok |-> TRUE, idx |-> i, offset |-> ln - lo]
    ELSE IF i + 1 >= Len(ds) THEN [ok |-> FALSE, idx |-> i + 1, offset |-> 0]
    ELSE SelectionLoop(ds, ln, i + 1, hi, hi + draw_lines(ds[i + 2]))

\* (draw index, offset in the draw) of line ln; ok is FALSE where the code panics.
get_selection(ds, ln) ==
    IF ds = <<>> THEN [ok |-> FALSE, idx |-> 0, offset |-> 0]
    ELSE SelectionLoop(ds, ln, 0, 0, draw_lines(ds[1]))

Element(k, n) == [kind |-> k, n |-> n]

\* Mutant: the category is classified before the quality.
ElementKindsCategoryFirst(d) ==
    <<Element("Mark", 0)>>
    \o (IF d.category # None THEN <<Element("Category", 0)>> ELSE <<>>)
    \o (IF d.power # None THEN <<Element("Power", 0)>> ELSE <<>>)
    \o [c \in 1..Len(d.tags) |-> Element("Tag", c - 1)]

\* The vector v of get_element_kind.
ElementKinds(d) ==
    <<Element("Mark", 0)>>
    \o (IF d.power # None THEN <<Element("Power", 0)>> ELSE <<>>)
    \o (IF d.category # None THEN <<Element("Category", 0)>> ELSE <<>>)
    \o [c \in 1..Len(d.tags) |-> Element("Tag", c - 1)]

get_element_kind(ds, ln) ==
    LET sel == get_selection(ds, ln) IN ElementKinds(ds[sel.idx + 1])[sel.offset + 1]

rotate_right(v) == IF v = <<>> THEN v ELSE <<v[Len(v)]>> \o SubSeq(v, 1, Len(v) - 1)

\* Mutant: the vector is rotated left by two places.
RotateLeftTwo(v) ==
    IF Len(v) < 2 THEN v ELSE SubSeq(v, 3, Len(v)) \o SubSeq(v, 1, 2)

rotate_left(v) == IF v = <<>> THEN v ELSE Tail(v) \o <<Head(v)>>

\* while &v[0] != x { v.rotate_right(1) }, for x an element of v.
RECURSIVE SeekFront(_, _)
SeekFront(x, v) == IF v[1] = x THEN v ELSE SeekFront(x, rotate_right(v))

\* Mutant: both directions rotate the vector the same way.
FindAndRotateOneWay(x, v, dir) ==
    IF v = <<>> THEN [st |-> "panicked", value |-> x]
    ELSE IF x \notin Range(v) THEN [st |-> "hung", value |-> x]
    ELSE [st |-> "running", value |-> rotate_left(SeekFront(x, v))[1]]

\* v[0] of an empty vector panics; a value that is not in v is sought forever.
find_and_rotate(x, v, dir) ==
    IF v = <<>> THEN [st |-> "panicked", value |-> x]
    ELSE IF x \notin Range(v) THEN [st |-> "hung", value |-> x]
    ELSE LET w == SeekFront(x, v)
             r == IF dir = "Left" THEN rotate_left(w) ELSE rotate_right(w)
         IN  [st |-> "running", value |-> r[1]]

RemoveAt(s, n) == SubSeq(s, 1, n) \o SubSeq(s, n + 2, Len(s))

\* Mutant: the tags the draw already uses stay among the candidates.
WithoutNothing(set, gone) == set

\* A BTreeSet with the elements of `gone` removed, in its own order.
Without(set, gone) == SelectSeq(set, LAMBDA t : t \notin Range(gone))

\* Mutant: the rotated tag is written to the first slot of the tag list.
RotateWritesFirstTag(lib, ds, ln, dir) ==
    LET sel == get_selection(ds, ln) IN
    IF ~sel.ok THEN [st |-> "panicked", draws |-> ds]
    ELSE LET i == sel.idx + 1
             d == ds[i]
             el == get_element_kind(ds, ln)
         IN  CASE el.kind = "Mark" -> [st |-> "running", draws |-> ds]
               [] el.kind = "Power" ->
                    LET r == find_and_rotate(d.power[1], Powers, dir)
                    IN  [st |-> r.st,
                         draws |-> [ds EXCEPT ![i].power = Some(r.value)]]
               [] el.kind = "Category" ->
                    LET r == find_and_rotate(d.category[1], lib.categories, dir)
                    IN  [st |-> r.st,
                         draws |-> [ds EXCEPT ![i].category = Some(r.value)]]
               [] el.kind = "Tag" ->
                    LET existing_tags == RemoveAt(d.tags, el.n)
                        tags == Without(lib.tags, existing_tags)
                        r == find_and_rotate(d.tags[el.n + 1], tags, dir)
                    IN  [st |-> r.st,
                         draws |-> [ds EXCEPT ![i].tags[1] = r.value]]

\* The draft after rotate_current_element, with the way the call ended.
rotate_current_element(lib, ds, ln, dir) ==
    LET sel == get_selection(ds, ln) IN
    IF ~sel.ok THEN [st |-> "panicked", draws |-> ds]
    ELSE LET i == sel.idx + 1
             d == ds[i]
             el == get_element_kind(ds, ln)
         IN  CASE el.kind = "Mark" -> [st |-> "running", draws |-> ds]
               [] el.kind = "Power" ->
                    LET r == find_and_rotate(d.power[1], Powers, dir)
                    IN  [st |-> r.st,
                         draws |-> [ds EXCEPT ![i].power = Some(r.value)]]
               [] el.kind = "Category" ->
                    LET r == find_and_rotate(d.category[1], lib.categories, dir)
                    IN  [st |-> r.st,
                         draws |-> [ds EXCEPT ![i].category = Some(r.value)]]
               [] el.kind = "Tag" ->
                    LET existing_tags == RemoveAt(d.tags, el.n)
                        tags == Without(lib.tags, existing_tags)
                        r == find_and_rotate(d.tags[el.n + 1], tags, dir)
                    IN  [st |-> r.st,
                         draws |-> [ds EXCEPT ![i].tags[el.n + 1] = r.value]]

\* Mutant: deleting a tag pops the draw's last tag.
DeletePopsTag(ds, ln) ==
    LET sel == get_selection(ds, ln) IN
    IF ~sel.ok THEN [st |-> "panicked", draws |-> ds]
    ELSE LET i == sel.idx + 1
             el == get_element_kind(ds, ln)
         IN  [st |-> "running",
              draws |->
                CASE el.kind = "Mark" -> RemoveAt(ds, sel.idx)
                  [] el.kind = "Power" -> [ds EXCEPT ![i].power = None]
                  [] el.kind = "Category" -> [ds EXCEPT ![i].category = None]
                  [] el.kind = "Tag" ->
                        [ds EXCEPT ![i].tags = SubSeq(@, 1, Len(@) - 1)]]

\* Mutant: the draw is removed at the offset in the draw, not at its index.
DeleteByOffset(ds, ln) ==
    LET sel == get_selection(ds, ln) IN
    IF ~sel.ok THEN [st |-> "panicked", draws |-> ds]
    ELSE LET i == sel.idx + 1
             el == get_element_kind(ds, ln)
         IN  [st |-> "running",
              draws |->
                CASE el.kind = "Mark" -> RemoveAt(ds, sel.offset)
                  [] el.kind = "Power" -> [ds EXCEPT ![i].power = None]
                  [] el.kind = "Category" -> [ds EXCEPT ![i].category = None]
                  [] el.kind = "Tag" ->
                        [ds EXCEPT ![i].tags = RemoveAt(ds[i].tags, el.n)]]

\* The draft after delete_current_element (the line is decremented by the action).
delete_current_element(ds, ln) ==
    LET sel == get_selection(ds, ln) IN
    IF ~sel.ok THEN [st |-> "panicked", draws |-> ds]
    ELSE LET i == sel.idx + 1
             el == get_element_kind(ds, ln)
         IN  [st |-> "running",
              draws |->
                CASE el.kind = "Mark" -> RemoveAt(ds, sel.idx)
                  [] el.kind = "Power" -> [ds EXCEPT ![i].power = None]
                  [] el.kind = "Category" -> [ds EXCEPT ![i].category = None]
                  [] el.kind = "Tag" ->
                        [ds EXCEPT ![i].tags = RemoveAt(ds[i].tags, el.n)]]

add_or_modify_power(ds, ln) ==
    LET sel == get_selection(ds, ln) IN
    IF ~sel.ok THEN [st |-> "panicked", draws |-> ds]
    ELSE [st |-> "running",
          draws |-> [ds EXCEPT ![sel.idx + 1].power = Some("Supreme")]]

\* Mutant: the last category of the library is assigned.
SetLastCategory(lib, ds, ln) ==
    LET sel == get_selection(ds, ln) IN
    IF ~sel.ok \/ lib.categories = <<>> THEN [st |-> "panicked", draws |-> ds]
    ELSE [st |-> "running",
          draws |-> [ds EXCEPT ![sel.idx + 1].category =
                                    Some(lib.categories[Len(lib.categories)])]]

\* lib.categories.iter().nth(0).unwrap() panics on an empty set.
add_or_modify_category(lib, ds, ln) ==
    LET sel == get_selection(ds, ln) IN
    IF ~sel.ok \/ lib.categories = <<>> THEN [st |-> "panicked", draws |-> ds]
    ELSE [st |-> "running",
          draws |-> [ds EXCEPT ![sel.idx + 1].category = Some(lib.categories[1])]]

\* Mutant: the first tag of the library is appended, used or not.
AddFirstTagAlways(lib, ds, ln) ==
    LET sel == get_selection(ds, ln) IN
    IF ~sel.ok THEN [st |-> "panicked", draws |-> ds]
    ELSE [st |-> "running",
          draws |-> IF lib.tags # <<>>
                    THEN [ds EXCEPT ![sel.idx + 1].tags = Append(@, lib.tags[1])]
                    ELSE ds]

\* Mutant: the last free tag of the library is appended.
AddLastFreeTag(lib, ds, ln) ==
    LET sel == get_selection(ds, ln) IN
    IF ~sel.ok THEN [st |-> "panicked", draws |-> ds]
    ELSE LET i == sel.idx + 1
             tag_lib == Without(lib.tags, ds[i].tags)
         IN  [st |-> "running",
              draws |-> IF tag_lib # <<>>
                        THEN [ds EXCEPT ![i].tags = Append(@, tag_lib[Len(tag_lib)])]
                        ELSE ds]

add_tag(lib, ds, ln) ==
    LET sel == get_selection(ds, ln) IN
    IF ~sel.ok THEN [st |-> "panicked", draws |-> ds]
    ELSE LET i == sel.idx + 1
             tag_lib == Without(lib.tags, ds[i].tags)
         IN  [st |-> "running",
              draws |-> IF tag_lib # <<>>
                        THEN [ds EXCEPT ![i].tags = Append(@, tag_lib[1])]
                        ELSE ds]

add_plain_mark(ds) == Append(ds, DefaultDraw)

\* The text of a quality in the display.
power_str(p) == IF p = "BadKarma" THEN "Bad Karma" ELSE p

label_text_span(label, text) == <<label, ": ", text>>

\* The lines of draw n (0-based) in the display.  style_line numbers the
\* lines it styles from i and reverses the one that is the current line.
format_draw(d, n, i, ln) ==
    LET v == <<(<<"Draw", n + 1>>)>>
             \o (IF d.power # None
                 THEN <<label_text_span(">> Power", power_str(d.power[1]))>>
                 ELSE <<>>)
             \o (IF d.category # None
                 THEN <<label_text_span(">> Category", d.category[1])>>
                 ELSE <<>>)
             \o [k \in 1..Len(d.tags) |-> label_text_span(">> Tag", d.tags[k])]
    IN  [k \in 1..Len(v) |-> [text |-> v[k], reversed |-> (i + k - 1 = ln)]]

\* The loop of DraftEditor::draw from draw c on, i lines being styled so far.
RECURSIVE DrawFrom(_, _, _, _)
DrawFrom(ds, c, i, ln) ==
    IF c >= Len(ds) THEN <<>>
    ELSE LET v == format_draw(ds[c + 1], c, i, ln)
         IN  v \o DrawFrom(ds, c + 1, i + Len(v), ln)

\* The text of the editor pane.
draw(ds, ln) == DrawFrom(ds, 0, 0, ln)

\* DraftView::input hands the key to the editor.
EditorKey == Dispatch /\ tab = "DraftCreation" /\ selected_tab = "Left"

\* The editor's state after a line-addressed operation that ended as r.st.
Edited(r, ln) ==
    /\ status' = r.st
    /\ draws' = r.draws
    /\ line' = IF r.st = "running" THEN ln ELSE line
    /\ UNCHANGED <<library, scroll, selected_tab, mark_state, tab, is_saving,
                   save_box, results, results_state>>

\* Mutant: Down on the last line wraps to line 0.
KeyDownWraps ==
    /\ EditorKey
    /\ line' = IF line + 1 >= max_line(draws) THEN 0 ELSE line + 1
    /\ UNCHANGED <<library, draws, scroll, selected_tab, mark_state, tab, is_saving,
                   save_box, results, results_state, status>>

KeyDown ==
    /\ EditorKey
    /\ line' = min(saturating_sub(max_line(draws), 1), line + 1)
    /\ UNCHANGED <<library, draws, scroll, selected_tab, mark_state, tab, is_saving,
                   save_box, results, results_state, status>>

KeyUp ==
    /\ EditorKey
    /\ line' = saturating_sub(line, 1)
    /\ UNCHANGED <<library, draws, scroll, selected_tab, mark_state, tab, is_saving,
                   save_box, results, results_state, status>>

KeyPageUp ==
    /\ EditorKey
    /\ scroll' = saturating_sub(scroll, 1)
    /\ UNCHANGED <<library, draws, line, selected_tab, mark_state, tab, is_saving,
                   save_box, results, results_state, status>>

KeyPageDown(maxScroll) ==
    /\ EditorKey
    /\ scroll < maxScroll
    /\ scroll' = min(scroll + 1, max_line(draws))
    /\ UNCHANGED <<library, draws, line, selected_tab, mark_state, tab, is_saving,
                   save_box, results, results_state, status>>

\* Left, Right, Backspace, c, p and t fall to the `_ => {}` arm on an empty draft.
KeyLeft ==
    /\ EditorKey
    /\ IF Len(draws) > 0
       THEN Edited(rotate_current_element(library, draws, line, "Left"), line)
       ELSE UNCHANGED vars

KeyRight ==
    /\ EditorKey
    /\ IF Len(draws) > 0
       THEN Edited(rotate_current_element(library, draws, line, "Right"), line)
       ELSE UNCHANGED vars

\* Mutant: a deletion leaves the current line where it was.
KeyBackspaceKeepsLine ==
    /\ EditorKey
    /\ IF Len(draws) > 0
       THEN Edited(delete_current_element(draws, line), line)
       ELSE UNCHANGED vars

KeyBackspace ==
    /\ EditorKey
    /\ IF Len(draws) > 0
       THEN Edited(delete_current_element(draws, line), saturating_sub(line, 1))
       ELSE UNCHANGED vars

KeyA(maxDraws) ==
    /\ EditorKey
    /\ Len(draws) < maxDraws
    /\ draws' = add_plain_mark(draws)
    /\ UNCHANGED <<library, line, scroll, selected_tab, mark_state, tab, is_saving,
                   save_box, results, results_state, status>>

KeyC ==
    /\ EditorKey
    /\ IF Len(draws) > 0
       THEN Edited(add_or_modify_category(library, draws, line), line)
       ELSE UNCHANGED vars

\* Mutant: set-quality is dispatched without the emptiness guard.
KeyPUnguarded ==
    /\ EditorKey
    /\ Edited(add_or_modify_power(draws, line), line)

KeyP ==
    /\ EditorKey
    /\ IF Len(draws) > 0
       THEN Edited(add_or_modify_power(draws, line), line)
       ELSE UNCHANGED vars

KeyT ==
    /\ EditorKey
    /\ IF Len(draws) > 0
       THEN Edited(add_tag(library, draws, line), line)
       ELSE UNCHANGED vars

---------------------------------------------------------------------------
(* The mark list (MarkList) and the pane switch of DraftView::input.       *)

\* MarkList::draw, part of every frame of the Draft tab: max().unwrap() over
\* an empty list of marks or an empty category set panics.
mark_list_draw(lib) ==
    IF lib.list = <<>> \/ lib.categories = <<>> THEN "panicked" ELSE "running"

KeyTab ==
    /\ Dispatch
    /\ tab = "DraftCreation"
    /\ selected_tab' = IF selected_tab = "Left" THEN "Right" ELSE "Left"
    /\ UNCHANGED <<library, draws, line, scroll, mark_state, tab, is_saving,
                   save_box, results, results_state, status>>

MarkKey == Dispatch /\ tab = "DraftCreation" /\ selected_tab = "Right"

\* Mutant: the wrap test compares with the length, not with the last index.
NextIndexPastEnd(sel, n) ==
    IF sel = None THEN [st |-> "running", sel |-> Some(0)]
    ELSE IF n = 0 THEN [st |-> "overflow", sel |-> sel]
    ELSE [st |-> "running", sel |-> Some(IF sel[1] >= n THEN 0 ELSE sel[1] + 1)]

\* n - 1 on a usize: with n = 0 the subtraction overflows.
next_index(sel, n) ==
    IF sel = None THEN [st |-> "running", sel |-> Some(0)]
    ELSE IF n = 0 THEN [st |-> "overflow", sel |-> sel]
    ELSE [st |-> "running", sel |-> Some(IF sel[1] >= n - 1 THEN 0 ELSE sel[1] + 1)]

prev_index(sel, n) ==
    IF sel = None THEN [st |-> "running", sel |-> Some(0)]
    ELSE IF sel[1] # 0 THEN [st |-> "running", sel |-> Some(sel[1] - 1)]
    ELSE IF n = 0 THEN [st |-> "overflow", sel |-> sel]
    ELSE [st |-> "running", sel |-> Some(n - 1)]

\* The ways a call can end: an overflowing subtraction panics in a build with
\* overflow checks and wraps around in one without; the session is not
\* followed past a wrapped index.
Outcomes(st) == IF st = "overflow" THEN {"panicked", "wrapped"} ELSE {st}

MarkDown ==
    /\ MarkKey
    /\ LET r == next_index(mark_state, Len(library.list))
       IN  mark_state' = r.sel /\ status' \in Outcomes(r.st)
    /\ UNCHANGED <<library, draws, line, scroll, selected_tab, tab, is_saving,
                   save_box, results, results_state>>

MarkUp ==
    /\ MarkKey
    /\ LET r == prev_index(mark_state, Len(library.list))
       IN  mark_state' = r.sel /\ status' \in Outcomes(r.st)
    /\ UNCHANGED <<library, draws, line, scroll, selected_tab, tab, is_saving,
                   save_box, results, results_state>>

\* lib.list[i].1 = !lib.list[i].1
toggle(lib, i) == [lib EXCEPT !.list[i + 1][2] = ~@]

MarkToggle ==
    /\ MarkKey
    /\ IF mark_state = None THEN UNCHANGED <<library, status>>
       ELSE IF mark_state[1] >= Len(library.list)
            THEN status' = "panicked" /\ UNCHANGED library
            ELSE library' = toggle(library, mark_state[1]) /\ UNCHANGED status
    /\ UNCHANGED <<draws, line, scroll, selected_tab, mark_state, tab, is_saving,
                   save_box, results, results_state>>

---------------------------------------------------------------------------
(* The results browser (Results::input).                                   *)

ResultsKey == Dispatch /\ tab = "Results"

ResultsDown ==
    /\ ResultsKey
    /\ LET r == next_index(results_state, Len(results))
       IN  results_state' = r.sel /\ status' \in Outcomes(r.st)
    /\ UNCHANGED <<library, draws, line, scroll, selected_tab, mark_state, tab,
                   is_saving, save_box, results>>

ResultsUp ==
    /\ ResultsKey
    /\ LET r == prev_index(results_state, Len(results))
       IN  results_state' = r.sel /\ status' \in Outcomes(r.st)
    /\ UNCHANGED <<library, draws, line, scroll, selected_tab, mark_state, tab,
                   is_saving, save_box, results>>

---------------------------------------------------------------------------
(* The session keys of UiState::input and the save prompt (Prompt::input). *)

KeyS ==
    /\ status = "running"
    /\ is_saving' = TRUE
    /\ UNCHANGED <<library, draws, line, scroll, selected_tab, mark_state, tab,
                   save_box, results, results_state, status>>

Quit ==
    /\ Dispatch
    /\ status' = "quit"
    /\ UNCHANGED <<library, draws, line, scroll, selected_tab, mark_state, tab,
                   is_saving, save_box, results, results_state>>

SwitchDraft ==
    /\ Dispatch
    /\ tab' = "DraftCreation"
    /\ UNCHANGED <<library, draws, line, scroll, selected_tab, mark_state,
                   is_saving, save_box, results, results_state, status>>

SwitchResults ==
    /\ Dispatch
    /\ tab' = "Results"
    /\ UNCHANGED <<library, draws, line, scroll, selected_tab, mark_state,
                   is_saving, save_box, results, results_state, status>>

PromptKey == status = "running" /\ is_saving

PromptEsc ==
    /\ PromptKey
    /\ is_saving' = FALSE
    /\ UNCHANGED <<library, draws, line, scroll, selected_tab, mark_state, tab,
                   save_box, results, results_state, status>>

\* save(..)? either writes the file or returns the I/O error out of the event loop.
PromptEnter ==
    /\ PromptKey
    /\ \/ is_saving' = FALSE /\ UNCHANGED status
       \/ status' = "error" /\ UNCHANGED is_saving
    /\ UNCHANGED <<library, draws, line, scroll, selected_tab, mark_state, tab,
                   save_box, results, results_state>>

\* Prompt.max_width of the save box.
max_width == 32

InsertAt(s, n, c) == SubSeq(s, 1, n) \o <<c>> \o SubSeq(s, n + 1, Len(s))

\* KeyCode::Char(c): String::insert panics when cursor_pos is past the end.
PromptChar(c, maxText) ==
    /\ PromptKey
    /\ Len(save_box.text) < maxText
    /\ IF save_box.cursor_pos > Len(save_box.text)
       THEN status' = "panicked" /\ UNCHANGED save_box
       ELSE /\ save_box' = [text |-> InsertAt(save_box.text, save_box.cursor_pos, c),
                            cursor_pos |-> save_box.cursor_pos + 1]
            /\ UNCHANGED status
    /\ UNCHANGED <<library, draws, line, scroll, selected_tab, mark_state, tab,
                   is_saving, results, results_state>>

\* KeyCode::Backspace: String::remove panics when cursor_pos - 1 is past the end.
PromptBackspace ==
    /\ PromptKey
    /\ IF save_box.cursor_pos > 0 /\ Len(save_box.text) > 0
       THEN IF save_box.cursor_pos - 1 >= Len(save_box.text)
            THEN status' = "panicked" /\ UNCHANGED save_box
            ELSE /\ save_box' = [text |-> RemoveAt(save_box.text, save_box.cursor_pos - 1),
                                 cursor_pos |-> save_box.cursor_pos - 1]
                 /\ UNCHANGED status
       ELSE UNCHANGED <<save_box, status>>
    /\ UNCHANGED <<library, draws, line, scroll, selected_tab, mark_state, tab,
                   is_saving, results, results_state>>

PromptRight ==
    /\ PromptKey
    /\ save_box' = [save_box EXCEPT !.cursor_pos = min(@ + 1, max_width - 1)]
    /\ UNCHANGED <<library, draws, line, scroll, selected_tab, mark_state, tab,
                   is_saving, results, results_state, status>>

PromptLeft ==
    /\ PromptKey
    /\ save_box' = [save_box EXCEPT !.cursor_pos = saturating_sub(@, 1)]
    /\ UNCHANGED <<library, draws, line, scroll, selected_tab, mark_state, tab,
                   is_saving, results, results_state, status>>

---------------------------------------------------------------------------
(* Inputs of exec_draw: a library and a draft from bounded sets.           *)

MarkA == Mark("A", "Great", "X", {"t1"}, "a")
MarkB == Mark("B", "Great", "X", {}, "b")
MarkC == Mark("C", "Poor", "", {"t1", "t2"}, "c")
MarkA2 == Mark("A", "Poor", "X", {"t1"}, "a again")

BaseMarks == <<MarkA, MarkB, MarkC, MarkA2>>

\* Strictly increasing index sequences of length n into 1..m.
RECURSIVE Increasing(_, _)
Increasing(n, m) ==
    IF n = 0 THEN {<<>>}
    ELSE IF m = 0 THEN {}
    ELSE Increasing(n, m - 1) \cup {Append(s, m) : s \in Increasing(n - 1, m - 1)}

\* Library lists: up to MaxMarks of the base marks in base order, any flags.
GenLists ==
    UNION {{[k \in 1..n |-> <<BaseMarks[ix[k]], fl[k]>>] :
                ix \in Increasing(n, Len(BaseMarks)), fl \in [1..n -> BOOLEAN]} :
           n \in 0..MaxMarks}

GenDraws ==
    {DefaultDraw,
     Draw(None, None, <<"t1">>),
     Draw(None, None, <<"t1", "t2">>),
     Draw(None, Some("X"), <<>>),
     Draw(Some("Great"), None, <<>>)}

GenDrafts == UNION {[1..n -> GenDraws] : n \in 0..MaxDraft}

\* One mark against one draw, over every combination of the three filters.
OneMarkLists ==
    {<<<<Mark("A", p, c, ts, "a"), f>>>> :
        p \in PowerSet, c \in {"", "X"}, ts \in {{}, {"t1"}, {"t1", "t2"}},
        f \in BOOLEAN}

OneDrawDrafts ==
    {<<Draw(p, c, ts)>> :
        p \in {None} \cup {Some(q) : q \in PowerSet},
        c \in {None, Some(""), Some("X"), Some("none-exists")},
        ts \in {<<>>, <<"t1">>, <<"t1", "t2">>}}

InitSession(lib, ds, res) ==
    /\ library = lib
    /\ draws = ds
    /\ line = 0
    /\ scroll = 0
    /\ selected_tab = "Left"
    /\ mark_state = None
    /\ tab = "DraftCreation"
    /\ is_saving = FALSE
    /\ save_box = [text |-> <<>>, cursor_pos |-> 0]
    /\ results = res
    /\ results_state = None
    /\ status = "running"

InitDraw ==
    \/ \E list \in GenLists, ds \in GenDrafts :
          InitSession([list |-> list, categories |-> <<"X">>, tags |-> <<"t1", "t2">>],
                      ds, <<>>)
    \/ \E list \in OneMarkLists, ds \in OneDrawDrafts :
          InitSession([list |-> list, categories |-> <<"X">>, tags |-> <<"t1", "t2">>],
                      ds, <<>>)

NextDraw == ExecDraft

SpecDraw == InitDraw /\ [][NextDraw]_vars



---------------------------------------------------------------------------
(* The session: a library and a results history loaded from a saved file,  *)
(* then one key event at a time.                                           *)

UiMark == Mark("A", "Supreme", "X", {"t1"}, "a")

UiLibrary == [list |-> <<<<UiMark, TRUE>>>>, categories |-> <<"X">>, tags |-> <<"t1">>]

\* The history of the saved file: one past execution.
LoadedResults == <<<<(<<MarkB>>), (<<DefaultDraw>>)>>>>

Init == InitSession(UiLibrary, <<>>, LoadedResults)

Next ==
    \/ KeyS
    \/ PromptEnter
    \/ PromptEsc
    \/ Quit
    \/ SwitchDraft
    \/ SwitchResults
    \/ ExecDraft
    \/ KeyTab
    \/ KeyDown
    \/ KeyUp
    \/ KeyPageUp
    \/ KeyPageDown(MaxScroll)
    \/ KeyLeft
    \/ KeyRight
    \/ KeyBackspace
    \/ KeyA(MaxDraws)
    \/ KeyC
    \/ KeyP
    \/ KeyT
    \/ MarkDown
    \/ MarkUp
    \/ MarkToggle
    \/ ResultsDown
    \/ ResultsUp

Spec == Init /\ [][Next]_vars

---------------------------------------------------------------------------
(* What the specification says of exec_draw, stated without the loop.      *)

\* The quality match rule of the specification.
Matches(q, y) == q = y \/ (q = "BadKarma" /\ y \in {"Poor", "Moderate"})

\* An entry of the library that meets a draw's constraints and is available.
Qualifies(e, d) ==
    /\ e[2]
    /\ d.power # None => Matches(d.power[1], e[1].power)
    /\ d.category # None => e[1].category = d.category[1]
    /\ Range(d.tags) \subseteq e[1].tags

Names(ms) == {ms[k].name : k \in 1..Len(ms)}

\* The candidate pool of a draw once `prior` has been chosen for earlier draws.
Candidates(list, d, prior) ==
    {list[k][1] : k \in {j \in 1..Len(list) :
                            Qualifies(list[j], d) /\ list[j][1].name \notin Names(prior)}}

LibraryMarks == {library.list[k][1] : k \in 1..Len(library.list)}

Executions == 1..Len(results)

PoolAt(r, i) ==
    Candidates(library.list, results[r][2][i], SubSeq(results[r][1], 1, i - 1))

ExecReady ==
    /\ Dispatch
    /\ selected_tab = "Left"
    /\ tab = "DraftCreation"
    /\ Len(results) < MaxResults

---------------------------------------------------------------------------
(* C1: exec_draw returns one mark per draw specification, and the i-th     *)
(* mark is the resolution of the i-th specification: a member of that      *)
(* draw's candidate pool given the marks chosen before it, or the sentinel *)
(* when that pool is empty.                                                *)
C1_OneMarkPerDrawInOrder ==
    \A r \in Executions :
        LET ms == results[r][1]
            ds == results[r][2]
        IN  /\ ds = draws
            /\ Len(ms) = Len(ds)
            /\ \A i \in 1..Len(ds) :
                  IF PoolAt(r, i) = {} THEN ms[i] = Sentinel ELSE ms[i] \in PoolAt(r, i)

\* Three draws with different constraints resolved to three different marks.
C1_Witness ==
    \E r \in Executions :
        LET ms == results[r][1]
            ds == results[r][2]
        IN  /\ Len(ds) = 3
            /\ ds[1] # ds[2]
            /\ ds[2] # ds[3]
            /\ ms[1] \in LibraryMarks
            /\ ms[2] \in LibraryMarks
            /\ ms[3] \in LibraryMarks
            /\ ms[1] \notin Candidates(library.list, ds[2], <<>>)

(* C2: a mark of the library returned for a draw with quality constraint   *)
(* q has quality exactly q when q is not BadKarma, and quality BadKarma,   *)
(* Poor or Moderate when q is BadKarma.                                    *)
C2_QualityMatch ==
    \A r \in Executions :
        \A i \in 1..Len(results[r][2]) :
            LET q == results[r][2][i].power
                m == results[r][1][i]
            IN  (q # None /\ m \in LibraryMarks) =>
                    IF q[1] # "BadKarma" THEN m.power = q[1]
                    ELSE m.power \in {"BadKarma", "Poor", "Moderate"}

\* A BadKarma draw resolved to a library mark of quality Poor.
C2_Witness ==
    \E r \in Executions :
        /\ Len(results[r][2]) = 1
        /\ results[r][2][1].power = Some("BadKarma")
        /\ results[r][1][1] \in LibraryMarks
        /\ results[r][1][1].power = "Poor"

(* C3 as stated: when the draws' pools (the available marks meeting each   *)
(* draw's constraints) are each non-empty and together hold at least n     *)
(* distinct names, the n returned marks have pairwise-distinct names.      *)
C3_AsStated ==
    \A r \in Executions :
        LET ms == results[r][1]
            ds == results[r][2]
            n == Len(ds)
            pool(i) == Candidates(library.list, ds[i], <<>>)
        IN  (/\ \A i \in 1..n : pool(i) # {}
             /\ Cardinality({m.name : m \in UNION {pool(i) : i \in 1..n}}) >= n)
            => \A i, j \in 1..n : i # j => ms[i].name # ms[j].name

(* C3 amended: when every draw's candidate pool is non-empty at the time   *)
(* the draw is resolved (the names chosen by earlier draws of the call     *)
(* excluded), the n returned marks have pairwise-distinct names.           *)
C3_DistinctNames ==
    \A r \in Executions :
        LET ms == results[r][1]
            n == Len(results[r][2])
        IN  (\A i \in 1..n : PoolAt(r, i) # {})
            => \A i, j \in 1..n : i # j => ms[i].name # ms[j].name

\* Two draws whose pools overlap: the first choice qualified for the second.
C3_Witness ==
    \E r \in Executions :
        LET ms == results[r][1]
            ds == results[r][2]
        IN  /\ Len(ds) >= 2
            /\ \A i \in 1..Len(ds) : PoolAt(r, i) # {}
            /\ ms[1] \in Candidates(library.list, ds[2], <<>>)

(* C4: a returned mark that is not the sentinel is the mark of a library   *)
(* entry that is available, has the draw's category when one is set and    *)
(* carries every tag of the draw; the mark of an unavailable entry is      *)
(* never returned.                                                         *)
C4_FromAvailableMatchingEntry ==
    \A r \in Executions :
        \A i \in 1..Len(results[r][2]) :
            LET d == results[r][2][i]
                m == results[r][1][i]
            IN  /\ m # Sentinel =>
                      \E k \in 1..Len(library.list) :
                          /\ library.list[k] = <<m, TRUE>>
                          /\ d.category # None => m.category = d.category[1]
                          /\ \A t \in Range(d.tags) : t \in m.tags
                /\ \A k \in 1..Len(library.list) :
                      ~library.list[k][2] => m # library.list[k][1]

\* A mark returned for a draw that lists tags while an unavailable entry of
\* the library met the draw's constraints as well.
C4_Witness ==
    \E r \in Executions :
        \E i \in 1..Len(results[r][2]) :
            LET d == results[r][2][i]
                m == results[r][1][i]
            IN  /\ m \in LibraryMarks
                /\ d.tags # <<>>
                /\ \E k \in 1..Len(library.list) :
                      /\ ~library.list[k][2]
                      /\ Qualifies(<<library.list[k][1], TRUE>>, d)

(* C5: the sentinel (name STUPID, quality Poor, empty category, tags and   *)
(* description) is recorded for a draw exactly when its candidate pool is  *)
(* empty, the draws after it are still resolved, and an execution that is  *)
(* triggered always returns.                                               *)
C5_SentinelOnEmptyPool ==
    /\ \A r \in Executions :
          /\ Len(results[r][1]) = Len(results[r][2])
          /\ \A i \in 1..Len(results[r][2]) :
                PoolAt(r, i) = {} <=>
                    results[r][1][i] = [name |-> "STUPID", power |-> "Poor",
                                        category |-> "", tags |-> {},
                                        description |-> ""]
    /\ ExecReady => ENABLED ExecDraft
    /\ status = "running"

\* The sentinel for the first draw and a library mark for a later one.
C5_Witness ==
    \E r \in Executions :
        /\ Len(results[r][2]) >= 2
        /\ results[r][1][1] = Sentinel
        /\ PoolAt(r, 1) = {}
        /\ results[r][1][Len(results[r][2])] \in LibraryMarks

\* An execution can return marks that start with the sequence p.
CanDraw(p) ==
    ENABLED (ExecDraft /\ SubSeq(results'[Len(results')][1], 1, Len(p)) = p)

(* C6: a mark resolved from a non-empty pool is a member of the pool, and  *)
(* every member of the pool is a possible outcome: whatever the earlier    *)
(* draws of the call returned, each member of the next draw's pool can be  *)
(* returned for it.                                                        *)
C6_EveryPoolMemberPossible ==
    /\ \A r \in Executions :
          \A i \in 1..Len(results[r][2]) :
              PoolAt(r, i) # {} => results[r][1][i] \in PoolAt(r, i)
    /\ ExecReady =>
          \A i \in 1..Len(draws) :
              \A p \in [1..(i - 1) -> LibraryMarks \cup {Sentinel}] :
                  CanDraw(p) =>
                      \A m \in Candidates(library.list, draws[i], p) :
                          CanDraw(Append(p, m))

\* The scenario of the specification: A and B both qualify, B was drawn.
C6_Witness ==
    /\ Len(library.list) = 2
    /\ library.list[1][1].name = "A"
    /\ library.list[2][1].name = "B"
    /\ \E r \in Executions :
          /\ results[r][2] = <<Draw(Some("Great"), None, <<>>)>>
          /\ Cardinality(PoolAt(r, 1)) = 2
          /\ results[r][1][1].name = "B"

---------------------------------------------------------------------------
(* The session's claims.                                                   *)

\* A step that appended an execution to the results history.
Executed == Len(results') = Len(results) + 1

NewEntry == results'[Len(results')]

(* C7: no step changes a mark, the category set or the tag set of the      *)
(* library; a step that executes a draft leaves the whole library as it    *)
(* was, so every library mark it drew is still available afterwards; and a *)
(* step that changes an availability flag is the mark-list toggle: the     *)
(* mark pane has the focus and exactly the selected entry's flag flips.    *)
C7_LibraryChangedOnlyByToggle ==
    [][/\ library'.categories = library.categories
       /\ library'.tags = library.tags
       /\ Len(library'.list) = Len(library.list)
       /\ \A k \in 1..Len(library.list) : library'.list[k][1] = library.list[k][1]
       /\ Executed =>
             /\ library' = library
             /\ \A i \in 1..Len(NewEntry[1]) :
                   NewEntry[1][i] # Sentinel =>
                       \E k \in 1..Len(library'.list) :
                           library'.list[k] = <<NewEntry[1][i], TRUE>>
       /\ library' # library =>
             /\ ~is_saving
             /\ tab = "DraftCreation"
             /\ selected_tab = "Right"
             /\ mark_state # None
             /\ \A k \in 1..Len(library.list) :
                   library'.list[k][2] # library.list[k][2] <=> k = mark_state[1] + 1
      ]_vars

\* An execution drew the library's mark, and the mark is still available.
C7_Witness ==
    /\ Len(results) = 2
    /\ results[2][1] = <<UiMark>>
    /\ library.list[1] = <<UiMark, TRUE>>

\* The steps an Enter key event takes.
EnterKey == ExecDraft \/ PromptEnter \/ MarkToggle

AppendsCurrentDraft ==
    /\ Len(results') = Len(results) + 1
    /\ SubSeq(results', 1, Len(results)) = results
    /\ NewEntry[2] = draws
    /\ NewEntry[1] \in exec_draw(library.list, draws)
    /\ results_state' = Some(Len(results') - 1)

(* C8 as stated: Enter while the Draft tab is active and the draft pane is *)
(* focused appends exactly one entry (the resolved marks and a copy of the *)
(* draft) to the history and selects it.                                   *)
C8_AsStated ==
    [][(EnterKey /\ tab = "DraftCreation" /\ selected_tab = "Left")
          => AppendsCurrentDraft]_vars

(* C8 amended: Enter while the Draft tab is active, the draft pane is      *)
(* focused and the save prompt is not open appends exactly one entry (the  *)
(* resolved marks and a copy of the draft) to the history and sets the     *)
(* viewed index to that new last entry.                                    *)
C8_TriggerAppendsOneEntry ==
    [][(EnterKey /\ tab = "DraftCreation" /\ selected_tab = "Left" /\ ~is_saving)
          => AppendsCurrentDraft]_vars

\* A non-empty draft was executed on top of the loaded history.
C8_Witness ==
    /\ Len(results) = 2
    /\ results[2][2] # <<>>
    /\ results_state = Some(1)
    /\ tab = "Results"

(* C9: a step that executes the draft leaves the draft's draws, the        *)
(* current line and the scroll offset as they were, and the entry it       *)
(* appends holds those draws.                                              *)
C9_DraftNotConsumed ==
    [][Executed =>
          /\ draws' = draws
          /\ line' = line
          /\ scroll' = scroll
          /\ NewEntry[2] = draws']_vars

\* After an execution the draft is still there, below line 0 and scrolled.
C9_Witness ==
    /\ Len(results) = 2
    /\ tab = "Results"
    /\ draws # <<>>
    /\ draws = results[2][2]
    /\ line > 0
    /\ scroll > 0

(* C10: no step shortens the results history or changes an entry that is   *)
(* already in it.                                                          *)
C10_HistoryAppendOnly ==
    [][/\ Len(results') >= Len(results)
       /\ \A i \in 1..Len(results) : results'[i] = results[i]]_vars

\* The executed draft was edited and the mark toggled after the execution;
\* both entries are as they were appended.
C10_Witness ==
    /\ Len(results) = 2
    /\ results[1] = LoadedResults[1]
    /\ results[2][1] = <<UiMark>>
    /\ draws # results[2][2]
    /\ library.list[1][2] = FALSE

---------------------------------------------------------------------------
(* Browsing: a session that starts from a saved history of any length up   *)
(* to MaxHistory and only switches tabs, browses, toggles and executes.    *)

\* The history of a saved file with n past executions.
History(n) == [k \in 1..n |-> <<(<<BaseMarks[k]>>), (<<DefaultDraw>>)>>]

InitBrowse == \E n \in 0..MaxHistory : InitSession(UiLibrary, <<>>, History(n))

NextBrowse ==
    \/ KeyS
    \/ PromptEsc
    \/ Quit
    \/ SwitchDraft
    \/ SwitchResults
    \/ ExecDraft
    \/ KeyTab
    \/ MarkDown
    \/ MarkUp
    \/ MarkToggle
    \/ ResultsDown
    \/ ResultsUp

SpecBrowse == InitBrowse /\ [][NextBrowse]_vars

(* C11: with a non-empty history and an entry selected, Down in the        *)
(* results browser selects index 0 from the last index and index + 1       *)
(* otherwise, Up selects the last index from index 0 and index - 1         *)
(* otherwise; the selected index always names an entry of the history.     *)
C11_BrowsingWraps ==
    [][(results # <<>> /\ results_state # None) =>
          LET i == results_state[1]
              last == Len(results) - 1
          IN  /\ i <= last
              /\ ResultsDown =>
                    results_state' = Some(IF i = last THEN 0 ELSE i + 1)
              /\ ResultsUp =>
                    results_state' = Some(IF i = 0 THEN last ELSE i - 1)
              /\ (ResultsDown \/ ResultsUp) => status' = "running"]_vars

\* The last of three entries is selected in the browser: it was reached by
\* Down from the entry before it or by Up from index 0.
C11_Witness ==
    /\ Len(results) = 3
    /\ tab = "Results"
    /\ results_state = Some(2)

---------------------------------------------------------------------------
(* Editing: the draft editor alone, starting from the empty draft.  One    *)
(* specification edits up to MaxEditDraws draws over a library with two    *)
(* categories and two tags; the other edits up to MaxRotateDraws draws     *)
(* over a library with two categories and three tags.                      *)

EditLibrary ==
    [list |-> <<<<UiMark, TRUE>>>>, categories |-> <<"X", "Y">>,
     tags |-> <<"t1", "t2">>]

InitEditor == InitSession(EditLibrary, <<>>, <<>>)

NextEditor ==
    \/ KeyDown
    \/ KeyUp
    \/ KeyPageUp
    \/ KeyPageDown(MaxEditScroll)
    \/ KeyLeft
    \/ KeyRight
    \/ KeyBackspace
    \/ KeyA(MaxEditDraws)
    \/ KeyC
    \/ KeyP
    \/ KeyT

SpecEditor == InitEditor /\ [][NextEditor]_vars

RotateLibrary ==
    [list |-> <<<<UiMark, TRUE>>>>, categories |-> <<"X", "Y">>,
     tags |-> <<"t1", "t2", "t3">>]

InitRotate == InitSession(RotateLibrary, <<>>, <<>>)

NextRotate ==
    \/ KeyDown
    \/ KeyUp
    \/ KeyLeft
    \/ KeyRight
    \/ KeyBackspace
    \/ KeyA(MaxRotateDraws)
    \/ KeyC
    \/ KeyP
    \/ KeyT

SpecRotate == InitRotate /\ [][NextRotate]_vars

\* No line-addressed operation of the editor ended in a panic or a hang.
EditorRuns == status = "running"

\* The cursor is on a line of the draft, or on line 0 of the empty draft.
LineValid == line <= saturating_sub(max_line(draws), 1)

---------------------------------------------------------------------------
(* The editor's claims.                                                    *)

(* C12: Down moves the current line to line + 1 unless it is the last line *)
(* of the draft, Up moves it to line - 1 unless it is line 0, and on those *)
(* two lines the key leaves the line where it is; the line is always in    *)
(* [0, total_lines - 1] (line 0 on the empty draft) and a cursor key never *)
(* moves it by more than one line.                                         *)
C12_CursorSaturates ==
    [][/\ LineValid /\ LineValid'
       /\ KeyDown =>
             line' = IF line + 1 <= max_line(draws) - 1 THEN line + 1 ELSE line
       /\ KeyUp => line' = IF line = 0 THEN 0 ELSE line - 1
       /\ (KeyDown \/ KeyUp) =>
             /\ line' - line \in {-1, 0, 1}
             /\ UNCHANGED <<draws, scroll, status>>]_vars

\* The cursor went down through the first draw to the last line of the second.
C12_Witness ==
    /\ Len(draws) = 2
    /\ draw_lines(draws[1]) >= 2
    /\ draw_lines(draws[2]) >= 2
    /\ line = max_line(draws) - 1

\* The line count the specification gives a draw.
LineCount(d) ==
    1 + (IF d.power = None THEN 0 ELSE 1) + (IF d.category = None THEN 0 ELSE 1)
      + Cardinality(DOMAIN d.tags)

\* The first line of draw i (1-based) of the draft ds.
RECURSIVE StartLine(_, _)
StartLine(ds, i) == IF i = 1 THEN 0 ELSE StartLine(ds, i - 1) + LineCount(ds[i - 1])

TotalLines(ds) == StartLine(ds, Len(ds) + 1)

(* C13: each draw occupies 1 + (quality present) + (category present) +    *)
(* |tags| lines of the display, and for every line L of a non-empty draft  *)
(* get_selection returns a draw index i and an offset o with L = (lines of *)
(* the draws before i) + o and 0 <= o < (lines of draw i); the index does  *)
(* not decrease as L increases.                                            *)
C13_LineAddressing ==
    /\ \A c \in 1..Len(draws) :
          Len(format_draw(draws[c], c - 1, 0, line)) = LineCount(draws[c])
    /\ Len(draw(draws, line)) = TotalLines(draws)
    /\ \A L \in 0..(TotalLines(draws) - 1) :
          LET sel == get_selection(draws, L) IN
          /\ sel.ok
          /\ sel.idx \in 0..(Len(draws) - 1)
          /\ L = StartLine(draws, sel.idx + 1) + sel.offset
          /\ sel.offset >= 0
          /\ sel.offset < LineCount(draws[sel.idx + 1])
          /\ L > 0 => get_selection(draws, L - 1).idx <= sel.idx

\* Two draws of different shapes; the second got its tag through the cursor.
C13_Witness ==
    /\ Len(draws) = 2
    /\ draw_lines(draws[1]) = 3
    /\ draws[2].power # None
    /\ draws[2].tags # <<>>
    /\ line = 5

(* C14: after any sequence of add-draw, set-quality, set-category,         *)
(* add-tag, rotate and delete operations, the tags of every draw of the    *)
(* draft are pairwise distinct.                                            *)
C14_NoDuplicateTag ==
    \A c \in 1..Len(draws) :
        \A j, k \in 1..Len(draws[c].tags) :
            j # k => draws[c].tags[j] # draws[c].tags[k]

\* A draw with every tag of the library, the first of them rotated to t3
\* while the other two were in the draw.
C14_Witness ==
    /\ Len(draws) = 1
    /\ draws[1].tags = <<"t3", "t1", "t2">>

\* The draft after k presses of the rotation key dir on line ln.
RECURSIVE RotateTimes(_, _, _, _, _)
RotateTimes(lib, ds, ln, dir, k) ==
    IF k = 0 THEN [st |-> "running", draws |-> ds]
    ELSE LET r == rotate_current_element(lib, ds, ln, dir)
         IN  IF r.st # "running" THEN r
             ELSE RotateTimes(lib, r.draws, ln, dir, k - 1)

\* The number of values the element on line ln of ds rotates through.
CandidateCount(lib, ds, ln) ==
    LET sel == get_selection(ds, ln)
        d == ds[sel.idx + 1]
        kind == get_element_kind(ds, ln).kind
    IN  CASE kind = "Mark" -> 1
          [] kind = "Power" -> Cardinality(PowerSet)
          [] kind = "Category" -> Cardinality(Range(lib.categories))
          [] kind = "Tag" ->
                Cardinality(Range(lib.tags) \ Range(d.tags)) + 1

Opposite(dir) == IF dir = "Left" THEN "Right" ELSE "Left"

(* C15: with the cursor on any element of a draft, rotating it k times in  *)
(* one direction and then k times in the other, nothing else in between,   *)
(* gives back the draft as it was, for every k from 1 to the number of     *)
(* values the element rotates through.                                     *)
C15_RotationRoundTrip ==
    draws # <<>> =>
        \A dir \in {"Left", "Right"} :
            \A k \in 1..CandidateCount(library, draws, line) :
                LET there == RotateTimes(library, draws, line, dir, k)
                    back == RotateTimes(library, there.draws, line, Opposite(dir), k)
                IN  /\ there.st = "running"
                    /\ back.st = "running"
                    /\ back.draws = draws

\* The cursor is on a tag that was rotated away from the value add-tag gave
\* it, in a draw whose quality was rotated away from Supreme.
C15_Witness ==
    /\ Len(draws) = 1
    /\ draws[1].power = Some("Moderate")
    /\ draws[1].category = Some("Y")
    /\ draws[1].tags = <<"t3", "t1">>
    /\ line = 3

C17_AsStated ==
    [][/\ scroll' >= 0
       /\ scroll' <= saturating_sub(TotalLines(draws'), 1)
       /\ (KeyPageUp \/ KeyPageDown(MaxEditScroll)) => line' = line
       /\ (KeyDown \/ KeyUp) => scroll' = scroll]_vars

\* The rank of an element kind in the order of the specification.
KindRank(kind) ==
    CASE kind = "Mark" -> 0
      [] kind = "Power" -> 1
      [] kind = "Category" -> 2
      [] kind = "Tag" -> 3

\* What the display shows on a line for the element el of draw c (1-based).
Shown(ds, c, el) ==
    CASE el.kind = "Mark" -> <<"Draw", c>>
      [] el.kind = "Power" ->
            <<">> Power", ": ",
              IF ds[c].power[1] = "BadKarma" THEN "Bad Karma" ELSE ds[c].power[1]>>
      [] el.kind = "Category" -> <<">> Category", ": ", ds[c].category[1]>>
      [] el.kind = "Tag" -> <<">> Tag", ": ", ds[c].tags[el.n + 1]>>

(* C18: on every line of the draft get_element_kind gives Mark at offset 0 *)
(* of a draw, then the quality if present, then the category if present,   *)
(* then Tag(j) for the tags in list order, and the line the display shows  *)
(* there is the line of that element; the one highlighted line is the      *)
(* current line, so it shows the element rotate and delete act on.         *)
C18_KindAgreesWithRendering ==
    \A L \in 0..(TotalLines(draws) - 1) :
        LET sel == get_selection(draws, L)
            el == get_element_kind(draws, L)
            d == draws[sel.idx + 1]
            shown == draw(draws, line)[L + 1]
        IN  /\ sel.offset = 0 <=> el.kind = "Mark"
            /\ el.kind = "Power" => d.power # None /\ sel.offset = 1
            /\ el.kind = "Category" =>
                  d.category # None /\ sel.offset = LineCount(d) - Len(d.tags) - 1
            /\ el.kind = "Tag" =>
                  el.n = sel.offset - (LineCount(d) - Len(d.tags))
            /\ sel.offset > 0 =>
                  KindRank(get_element_kind(draws, L - 1).kind) <= KindRank(el.kind)
            /\ shown.text = Shown(draws, sel.idx + 1, el)
            /\ shown.reversed <=> L = line

\* The cursor is on the second tag of the second draw, below a first draw
\* with a quality and a category and a second draw with a category only.
C18_Witness ==
    /\ Len(draws) = 2
    /\ draws[1].power = Some("BadKarma")
    /\ draws[1].category # None
    /\ draws[2].power = None
    /\ draws[2].category # None
    /\ Len(draws[2].tags) = 2
    /\ line = TotalLines(draws) - 1

\* The sequence s without its j-th element (1-based), the rest in order.
Dropped(s, j) == [k \in 1..(Len(s) - 1) |-> IF k < j THEN s[k] ELSE s[k + 1]]

(* C19: Backspace with the cursor on a line of draw c other than its       *)
(* header clears only the addressed field: the quality or the category     *)
(* becomes absent, or exactly the addressed tag leaves the tag list and    *)
(* the other tags keep their order; every other field of the draw and      *)
(* every other draw are as before.  After any deletion the current line is *)
(* one less, or 0 if it was 0.                                             *)
C19_FieldDeleteClearsOnlyField ==
    [][/\ \A c \in 1..Len(draws) :
             (/\ KeyBackspace
              /\ line > StartLine(draws, c)
              /\ line < StartLine(draws, c + 1)) =>
                LET d == draws[c]
                    o == line - StartLine(draws, c)
                    first_tag == LineCount(d) - Len(d.tags)
                IN  /\ status' = "running"
                    /\ Len(draws') = Len(draws)
                    /\ \A j \in 1..Len(draws) : j # c => draws'[j] = draws[j]
                    /\ (o = 1 /\ d.power # None) =>
                          draws'[c] = [power |-> None, category |-> d.category,
                                       tags |-> d.tags]
                    /\ (o < first_tag /\ ~(o = 1 /\ d.power # None)) =>
                          draws'[c] = [power |-> d.power, category |-> None,
                                       tags |-> d.tags]
                    /\ o >= first_tag =>
                          draws'[c] = [power |-> d.power, category |-> d.category,
                                       tags |-> Dropped(d.tags, o - first_tag + 1)]
       /\ (KeyBackspace /\ draws # <<>>) =>
             line' = IF line = 0 THEN 0 ELSE line - 1]_vars

\* The cursor is on the first of two tags of the second draw, which also
\* has a quality and a category, below a first draw of three lines.
C19_Witness ==
    /\ Len(draws) = 2
    /\ LineCount(draws[1]) = 3
    /\ draws[2].power # None
    /\ draws[2].category # None
    /\ draws[2].tags = <<"t2", "t1">>
    /\ line = StartLine(draws, 2) + 3

\* The positions in the library's tag order of the tags the draw d lacks.
FreeTags(lib, d) == {k \in 1..Len(lib.tags) : lib.tags[k] \notin Range(d.tags)}

(* C20: on a non-empty draft, add-tag with the cursor on a line of draw c  *)
(* appends to that draw's tag list the first tag, in the library tag set's *)
(* order, that the list does not hold, and changes nothing else; when the  *)
(* list holds every tag of the library the draft is left unchanged.        *)
C20_AddTagFirstUnused ==
    [][\A c \in 1..Len(draws) :
          (/\ KeyT
           /\ line >= StartLine(draws, c)
           /\ line < StartLine(draws, c + 1)) =>
             LET free == FreeTags(library, draws[c])
                 first == CHOOSE k \in free : \A m \in free : k <= m
             IN  /\ status' = "running"
                 /\ line' = line
                 /\ IF free = {} THEN draws' = draws
                    ELSE /\ Len(draws') = Len(draws)
                         /\ \A j \in 1..Len(draws) : j # c => draws'[j] = draws[j]
                         /\ draws'[c] = [power |-> draws[c].power,
                                         category |-> draws[c].category,
                                         tags |-> draws[c].tags \o <<library.tags[first]>>]
      ]_vars

\* The second draw got t2 after t1, the first free tag once t1 was in its
\* list, while the first draw has no tag.
C20_Witness ==
    /\ Len(draws) = 2
    /\ draws[1].tags = <<>>
    /\ draws[2].tags = <<"t1", "t2">>
    /\ line >= StartLine(draws, 2)

---------------------------------------------------------------------------
(* Loading: the session of a file that was just loaded.  The first frame   *)
(* is drawn before the first key event is read.                            *)

InitLoaded(lib, res) ==
    /\ library = lib
    /\ draws = <<>>
    /\ line = 0
    /\ scroll = 0
    /\ selected_tab = "Left"
    /\ mark_state = None
    /\ tab = "DraftCreation"
    /\ is_saving = FALSE
    /\ save_box = [text |-> <<>>, cursor_pos |-> 0]
    /\ results = res
    /\ results_state = None
    /\ status = mark_list_draw(lib)

\* Libraries of one mark whose category set has zero to three categories.
CategorySets == {<<>>, <<"X">>, <<"X", "Y">>, <<"W", "X", "Y">>}

CategoryLibraries ==
    {[list |-> <<<<Mark("A", "Supreme", IF cs = <<>> THEN "" ELSE cs[1], {"t1"}, "a"),
                   TRUE>>>>,
      categories |-> cs, tags |-> <<"t1">>] : cs \in CategorySets}

InitCategory == \E lib \in CategoryLibraries : InitLoaded(lib, <<>>)

NextCategory ==
    \/ KeyDown
    \/ KeyUp
    \/ KeyLeft
    \/ KeyRight
    \/ KeyBackspace
    \/ KeyA(MaxCategoryDraws)
    \/ KeyC
    \/ KeyP
    \/ KeyT

SpecCategory == InitCategory /\ [][NextCategory]_vars

(* C21: on a non-empty draft, for any library the session runs with,       *)
(* set-category with the cursor on a line of draw c sets that draw's       *)
(* category to the first category of the library's category set, whatever  *)
(* it was before, and leaves the draw's other fields, the other draws and  *)
(* the line unchanged; the category is then present and a member of the    *)
(* library's category set.                                                 *)
C21_SetCategoryFirst ==
    [][\A c \in 1..Len(draws) :
          (/\ KeyC
           /\ line >= StartLine(draws, c)
           /\ line < StartLine(draws, c + 1)) =>
             /\ status' = "running"
             /\ line' = line
             /\ Len(draws') = Len(draws)
             /\ \A j \in 1..Len(draws) : j # c => draws'[j] = draws[j]
             /\ draws'[c] = [power |-> draws[c].power,
                             category |-> <<library.categories[1]>>,
                             tags |-> draws[c].tags]
             /\ draws'[c].category # None
             /\ draws'[c].category[1] \in Range(library.categories)]_vars

\* Over the library with three categories, the cursor is in the second
\* draw, whose category was rotated to the last one; the first draw has the
\* category that set-category gave it.
C21_Witness ==
    /\ library.categories = <<"W", "X", "Y">>
    /\ Len(draws) = 2
    /\ draws[1].category = Some("W")
    /\ draws[2].category = Some("Y")
    /\ line >= StartLine(draws, 2)

\* The quality list in the order of the specification.
QualityOrder ==
    <<"BadKarma", "Poor", "Moderate", "Good", "Great", "Supreme", "Unique">>

\* The position of x in the sequence s of distinct values.
PositionIn(s, x) == CHOOSE k \in 1..Len(s) : s[k] = x

Successor(s, x) == s[(PositionIn(s, x) % Len(s)) + 1]

Predecessor(s, x) == s[((PositionIn(s, x) + Len(s) - 2) % Len(s)) + 1]

\* The values a field of draw c takes in n rotations of the line ln.
Visited(c, ln, dir, n, field(_)) ==
    {field(RotateTimes(library, draws, ln, dir, k).draws[c]) : k \in 1..n}

(* C22: with the cursor on the quality line of a draw, one rotation gives  *)
(* the next value of BadKarma, Poor, Moderate, Good, Great, Supreme,       *)
(* Unique (Unique wrapping to BadKarma) in one direction and the previous  *)
(* value (BadKarma wrapping to Unique) in the other, and seven rotations   *)
(* in one direction visit all seven values and end on the first; on the    *)
(* category line the same holds over the library's category set in set     *)
(* order.                                                                  *)
C22_RotationCyclic ==
    [][(KeyLeft \/ KeyRight) =>
          \A c \in 1..Len(draws) :
              LET d == draws[c]
                  o == line - StartLine(draws, c)
                  on_power == d.power # None /\ o = 1
                  on_category ==
                      d.category # None /\ o = (IF d.power # None THEN 2 ELSE 1)
                  cats == library.categories
                  pw(x) == x.power[1]
                  ct(x) == x.category[1]
              IN  /\ on_power =>
                        /\ KeyLeft =>
                              draws'[c].power = Some(Successor(QualityOrder, pw(d)))
                        /\ KeyRight =>
                              draws'[c].power = Some(Predecessor(QualityOrder, pw(d)))
                        /\ \A dir \in {"Left", "Right"} :
                              /\ Visited(c, line, dir, 7, pw) = Range(QualityOrder)
                              /\ RotateTimes(library, draws, line, dir, 7).draws = draws
                  /\ on_category =>
                        /\ KeyLeft =>
                              draws'[c].category = Some(Successor(cats, ct(d)))
                        /\ KeyRight =>
                              draws'[c].category = Some(Predecessor(cats, ct(d)))
                        /\ \A dir \in {"Left", "Right"} :
                              /\ Visited(c, line, dir, Len(cats), ct) = Range(cats)
                              /\ RotateTimes(library, draws, line, dir, Len(cats)).draws
                                    = draws]_vars

\* Over the library with three categories, the first draw's quality was
\* rotated from Supreme to Unique and the second draw's category from the
\* first category to the last; the cursor is on that category.
C22_Witness ==
    /\ library.categories = <<"W", "X", "Y">>
    /\ Len(draws) = 2
    /\ draws[1].power = Some("Unique")
    /\ draws[2].power = Some("BadKarma")
    /\ draws[2].category = Some("Y")
    /\ line = StartLine(draws, 2) + 2

(* C23: a rotation changes at most the value of the one element under the  *)
(* cursor: nothing on a header line, only the quality on a quality line,   *)
(* only the category on a category line, only the addressed tag on a tag   *)
(* line; the number of draws, every draw's line count, the current line,   *)
(* the scroll offset and every draw other than the cursor's are unchanged. *)
C23_RotationFrame ==
    [][(KeyLeft \/ KeyRight) =>
          /\ status' = "running"
          /\ line' = line
          /\ scroll' = scroll
          /\ Len(draws') = Len(draws)
          /\ \A j \in 1..Len(draws) : LineCount(draws'[j]) = LineCount(draws[j])
          /\ \A c \in 1..Len(draws) :
                IF line >= StartLine(draws, c) /\ line < StartLine(draws, c + 1)
                THEN LET d == draws[c]
                         e == draws'[c]
                         o == line - StartLine(draws, c)
                         first_tag == LineCount(d) - Len(d.tags)
                     IN  /\ o = 0 => e = d
                         /\ ~(o = 1 /\ d.power # None) => e.power = d.power
                         /\ (o = 0 \/ o >= first_tag \/ (o = 1 /\ d.power # None))
                               => e.category = d.category
                         /\ \A k \in 1..Len(d.tags) :
                               k # o - first_tag + 1 => e.tags[k] = d.tags[k]
                ELSE draws'[c] = draws[c]]_vars

\* Under a scrolled viewport the cursor is on the second tag of the first
\* of two draws, whose quality and first tag were rotated.
C23_Witness ==
    /\ Len(draws) = 2
    /\ scroll = 1
    /\ draws[1].power = Some("Good")
    /\ draws[1].tags = <<"t2", "t1">>
    /\ draws[2].category # None
    /\ line = 3

\* The step changed the editor or ended the session.
EditorChanged ==
    \/ draws' # draws
    \/ line' # line
    \/ scroll' # scroll
    \/ status' # status

(* C24: when the draft has no draw, the rotate-left, rotate-right, delete, *)
(* set-quality, set-category and add-tag keys are accepted and leave the   *)
(* draft, the current line and the scroll offset as they are; none of them *)
(* reaches get_selection, which would end the session with a panic.        *)
C24_EmptyDraftGuarded ==
    (draws = <<>> /\ EditorKey) =>
        /\ ENABLED KeyLeft /\ ~ENABLED (KeyLeft /\ EditorChanged)
        /\ ENABLED KeyRight /\ ~ENABLED (KeyRight /\ EditorChanged)
        /\ ENABLED KeyBackspace /\ ~ENABLED (KeyBackspace /\ EditorChanged)
        /\ ENABLED KeyP /\ ~ENABLED (KeyP /\ EditorChanged)
        /\ ENABLED KeyC /\ ~ENABLED (KeyC /\ EditorChanged)
        /\ ENABLED KeyT /\ ~ENABLED (KeyT /\ EditorChanged)
        /\ ~get_selection(draws, line).ok

\* The editor has the focus on a draft that was emptied again under a
\* scrolled viewport.
C24_Witness ==
    /\ Len(draws) = 0
    /\ EditorKey
    /\ scroll > 0
    /\ ENABLED KeyBackspace

(* C25: after any sequence of editor key events, the current line of a     *)
(* non-empty draft is less than the draft's total line count, so           *)
(* get_selection finds the draw that owns it without indexing past the end *)
(* of the draft and no operation ends in a panic; the current line of an   *)
(* empty draft is 0.                                                       *)
C25_CursorValid ==
    /\ status = "running"
    /\ draws # <<>> =>
          /\ line < TotalLines(draws)
          /\ get_selection(draws, line).ok
          /\ get_selection(draws, line).idx < Len(draws)
    /\ draws = <<>> => line = 0

\* The cursor is on the last line of the draft, a tag of the second draw:
\* deleting there shortens the draft under the cursor.
C25_Witness ==
    /\ Len(draws) = 2
    /\ draws[1] = DefaultDraw
    /\ draws[2].tags # <<>>
    /\ line = TotalLines(draws) - 1
    /\ scroll = 0

\* The tags of the draw d other than the one in slot k (1-based).
OtherTags(d, k) == {d.tags[j] : j \in (1..Len(d.tags)) \ {k}}

(* C26: in every reachable state the value a rotation searches for is in   *)
(* the list it is searched in: every category of the draft is in the       *)
(* library's category set and every tag is in the library's tag set minus  *)
(* the other tags of its draw; so the search loop of find_and_rotate finds *)
(* it, and a rotation of the line under the cursor in either direction     *)
(* returns.                                                                *)
C26_RotationTerminates ==
    /\ status # "hung"
    /\ \A c \in 1..Len(draws) :
          /\ draws[c].power # None => draws[c].power[1] \in PowerSet
          /\ draws[c].category # None =>
                draws[c].category[1] \in Range(library.categories)
          /\ \A k \in 1..Len(draws[c].tags) :
                draws[c].tags[k] \in Range(library.tags) \ OtherTags(draws[c], k)
    /\ draws # <<>> =>
          \A dir \in {"Left", "Right"} :
              rotate_current_element(library, draws, line, dir).st = "running"

\* The cursor is on the second of two rotated tags of a draw whose category
\* was rotated as well.
C26_Witness ==
    /\ Len(draws) = 1
    /\ draws[1].power = None
    /\ draws[1].category = Some("Y")
    /\ draws[1].tags = <<"t2", "t1">>
    /\ line = 3

(* C27 as stated: after any sequence of key events, from an empty or a     *)
(* loaded results history, the viewed index is unset or less than the      *)
(* number of history entries, and computing the next or previous index     *)
(* never underflows.                                                       *)
C27_AsStated ==
    /\ results_state = None \/ results_state[1] < Len(results)
    /\ status \notin {"panicked", "wrapped"}

---------------------------------------------------------------------------
(* Saving: a session in which the save prompt is opened, edited, confirmed *)
(* and dismissed between other keys.                                       *)

\* Characters typed into the prompt; outside it they are session keys.
PromptChars == {"q", "d"}

NextPrompt ==
    \/ KeyS
    \/ PromptEnter
    \/ PromptEsc
    \/ \E c \in PromptChars : PromptChar(c, MaxText)
    \/ PromptBackspace
    \/ PromptRight
    \/ PromptLeft
    \/ Quit
    \/ SwitchDraft
    \/ SwitchResults
    \/ KeyTab
    \/ KeyA(MaxDraws)
    \/ MarkDown
    \/ MarkToggle

SpecPrompt == Init /\ [][NextPrompt]_vars

(* C28 as stated: while the save prompt is open no key changes the         *)
(* library, the draft, the results history or the active tab, no key ends  *)
(* the session, and the prompt closes only on Esc or Enter; confirming a   *)
(* save leaves the state as it is.                                         *)
C28_AsStated ==
    [][is_saving =>
          /\ library' = library
          /\ draws' = draws
          /\ line' = line
          /\ scroll' = scroll
          /\ results' = results
          /\ results_state' = results_state
          /\ tab' = tab
          /\ status' = "running"
          /\ ~is_saving' => (PromptEsc \/ PromptEnter)]_vars

=============================================================================
